---- MODULE Spec2Model ----
(***************************************************************************)
(* Model of Specification_separator: the bill-of-materials reader          *)
(* (ExcelInput), its tree builder (collect_model / find_assembly), the     *)
(* absolute report (ExcelOutput.create_absolute_sheet) and the driver      *)
(* loop (Main.main).                                                       *)
(*                                                                         *)
(* Text is modelled as a sequence of Unicode code points, so that          *)
(* str.lower, str.replace, str.split, int() and string ordering are        *)
(* computed, not assumed.  Quantities are the small whole numbers the      *)
(* inputs carry; on these float arithmetic is exact.                       *)
(***************************************************************************)
EXTENDS Integers, Sequences, FiniteSets, TLC

VARIABLES
  pc,                     \* position in Main.main / in the harness
  file_no,                \* files taken from list_excel_files() so far
  row_no,                 \* rows of the current file handed to collect_model
  file_contents,          \* ExcelInput.file_contents (rows of the data frame)
  empty_index,            \* ExcelInput.empty_index
  models,                 \* ExcelInput.models, the forest
  counter_unique_models,  \* ExcelInput.counter_unique_models, name -> snapshot
  relative_content,       \* ExcelOutput.relative_content
  absolute_content,       \* ExcelOutput.absolute_content
  raised,                 \* the exception that left Main.main, or "none"
  arg,                    \* argument of the pure function under study
  ret                     \* the last result: the sheet written, a pure function's
                          \* return value, or the previous run's aggregation map

vars == << pc, file_no, row_no, file_contents, empty_index, models,
           counter_unique_models, relative_content, absolute_content,
           raised, arg, ret >>

(***************************************************************************)
(* Bounds of the model.                                                    *)
(***************************************************************************)
MaxRows == 4
MaxFiles == 2
MaxDepth == 4
MaxBatchRows == 2

\* Rows per file in the row-level specification.
MaxFileRows == 3

\* Rows per file that check_columns_kit rejects.
MaxRejectedRows == 1
MaxOrderRows == 3

(***************************************************************************)
(* Text.  excel.py needs Python 3.12 or later (the f-string of line 52);   *)
(* the tables are those of the Unicode database of Python 3.12 and 3.13    *)
(* (Unicode 15).                                                           *)
(***************************************************************************)
\* str.lower() of one code point, where it is again one code point:
\* << first, last, step, delta >> maps first, first + step, ..., last to
\* themselves plus delta.
LowerTable ==
  << << 65, 90, 1, 32 >>, << 192, 214, 1, 32 >>, << 216, 222, 1, 32 >>,
     << 256, 302, 2, 1 >>, << 306, 310, 2, 1 >>, << 313, 327, 2, 1 >>,
     << 330, 374, 2, 1 >>, << 376, 376, 1, -121 >>, << 377, 381, 2, 1 >>,
     << 385, 385, 1, 210 >>, << 386, 388, 2, 1 >>, << 390, 390, 1, 206 >>,
     << 391, 391, 1, 1 >>, << 393, 394, 1, 205 >>, << 395, 395, 1, 1 >>,
     << 398, 398, 1, 79 >>, << 399, 399, 1, 202 >>, << 400, 400, 1, 203 >>,
     << 401, 401, 1, 1 >>, << 403, 403, 1, 205 >>, << 404, 404, 1, 207 >>,
     << 406, 406, 1, 211 >>, << 407, 407, 1, 209 >>, << 408, 408, 1, 1 >>,
     << 412, 412, 1, 211 >>, << 413, 413, 1, 213 >>, << 415, 415, 1, 214 >>,
     << 416, 420, 2, 1 >>, << 422, 422, 1, 218 >>, << 423, 423, 1, 1 >>,
     << 425, 425, 1, 218 >>, << 428, 428, 1, 1 >>, << 430, 430, 1, 218 >>,
     << 431, 431, 1, 1 >>, << 433, 434, 1, 217 >>, << 435, 437, 2, 1 >>,
     << 439, 439, 1, 219 >>, << 440, 440, 1, 1 >>, << 444, 444, 1, 1 >>,
     << 452, 452, 1, 2 >>, << 453, 453, 1, 1 >>, << 455, 455, 1, 2 >>,
     << 456, 456, 1, 1 >>, << 458, 458, 1, 2 >>, << 459, 475, 2, 1 >>,
     << 478, 494, 2, 1 >>, << 497, 497, 1, 2 >>, << 498, 500, 2, 1 >>,
     << 502, 502, 1, -97 >>, << 503, 503, 1, -56 >>, << 504, 542, 2, 1 >>,
     << 544, 544, 1, -130 >>, << 546, 562, 2, 1 >>, << 570, 570, 1, 10795 >>,
     << 571, 571, 1, 1 >>, << 573, 573, 1, -163 >>, << 574, 574, 1, 10792 >>,
     << 577, 577, 1, 1 >>, << 579, 579, 1, -195 >>, << 580, 580, 1, 69 >>,
     << 581, 581, 1, 71 >>, << 582, 590, 2, 1 >>, << 880, 882, 2, 1 >>,
     << 886, 886, 1, 1 >>, << 895, 895, 1, 116 >>, << 902, 902, 1, 38 >>,
     << 904, 906, 1, 37 >>, << 908, 908, 1, 64 >>, << 910, 911, 1, 63 >>,
     << 913, 929, 1, 32 >>, << 931, 939, 1, 32 >>, << 975, 975, 1, 8 >>,
     << 984, 1006, 2, 1 >>, << 1012, 1012, 1, -60 >>, << 1015, 1015, 1, 1 >>,
     << 1017, 1017, 1, -7 >>, << 1018, 1018, 1, 1 >>,
     << 1021, 1023, 1, -130 >>, << 1024, 1039, 1, 80 >>,
     << 1040, 1071, 1, 32 >>, << 1120, 1152, 2, 1 >>, << 1162, 1214, 2, 1 >>,
     << 1216, 1216, 1, 15 >>, << 1217, 1229, 2, 1 >>, << 1232, 1326, 2, 1 >>,
     << 1329, 1366, 1, 48 >>, << 4256, 4293, 1, 7264 >>,
     << 4295, 4295, 1, 7264 >>, << 4301, 4301, 1, 7264 >>,
     << 5024, 5103, 1, 38864 >>, << 5104, 5109, 1, 8 >>,
     << 7312, 7354, 1, -3008 >>, << 7357, 7359, 1, -3008 >>,
     << 7680, 7828, 2, 1 >>, << 7838, 7838, 1, -7615 >>,
     << 7840, 7934, 2, 1 >>, << 7944, 7951, 1, -8 >>,
     << 7960, 7965, 1, -8 >>, << 7976, 7983, 1, -8 >>,
     << 7992, 7999, 1, -8 >>, << 8008, 8013, 1, -8 >>,
     << 8025, 8031, 2, -8 >>, << 8040, 8047, 1, -8 >>,
     << 8072, 8079, 1, -8 >>, << 8088, 8095, 1, -8 >>,
     << 8104, 8111, 1, -8 >>, << 8120, 8121, 1, -8 >>,
     << 8122, 8123, 1, -74 >>, << 8124, 8124, 1, -9 >>,
     << 8136, 8139, 1, -86 >>, << 8140, 8140, 1, -9 >>,
     << 8152, 8153, 1, -8 >>, << 8154, 8155, 1, -100 >>,
     << 8168, 8169, 1, -8 >>, << 8170, 8171, 1, -112 >>,
     << 8172, 8172, 1, -7 >>, << 8184, 8185, 1, -128 >>,
     << 8186, 8187, 1, -126 >>, << 8188, 8188, 1, -9 >>,
     << 8486, 8486, 1, -7517 >>, << 8490, 8490, 1, -8383 >>,
     << 8491, 8491, 1, -8262 >>, << 8498, 8498, 1, 28 >>,
     << 8544, 8559, 1, 16 >>, << 8579, 8579, 1, 1 >>,
     << 9398, 9423, 1, 26 >>, << 11264, 11311, 1, 48 >>,
     << 11360, 11360, 1, 1 >>, << 11362, 11362, 1, -10743 >>,
     << 11363, 11363, 1, -3814 >>, << 11364, 11364, 1, -10727 >>,
     << 11367, 11371, 2, 1 >>, << 11373, 11373, 1, -10780 >>,
     << 11374, 11374, 1, -10749 >>, << 11375, 11375, 1, -10783 >>,
     << 11376, 11376, 1, -10782 >>, << 11378, 11378, 1, 1 >>,
     << 11381, 11381, 1, 1 >>, << 11390, 11391, 1, -10815 >>,
     << 11392, 11490, 2, 1 >>, << 11499, 11501, 2, 1 >>,
     << 11506, 11506, 1, 1 >>, << 42560, 42604, 2, 1 >>,
     << 42624, 42650, 2, 1 >>, << 42786, 42798, 2, 1 >>,
     << 42802, 42862, 2, 1 >>, << 42873, 42875, 2, 1 >>,
     << 42877, 42877, 1, -35332 >>, << 42878, 42886, 2, 1 >>,
     << 42891, 42891, 1, 1 >>, << 42893, 42893, 1, -42280 >>,
     << 42896, 42898, 2, 1 >>, << 42902, 42920, 2, 1 >>,
     << 42922, 42922, 1, -42308 >>, << 42923, 42923, 1, -42319 >>,
     << 42924, 42924, 1, -42315 >>, << 42925, 42925, 1, -42305 >>,
     << 42926, 42926, 1, -42308 >>, << 42928, 42928, 1, -42258 >>,
     << 42929, 42929, 1, -42282 >>, << 42930, 42930, 1, -42261 >>,
     << 42931, 42931, 1, 928 >>, << 42932, 42946, 2, 1 >>,
     << 42948, 42948, 1, -48 >>, << 42949, 42949, 1, -42307 >>,
     << 42950, 42950, 1, -35384 >>, << 42951, 42953, 2, 1 >>,
     << 42960, 42960, 1, 1 >>, << 42966, 42968, 2, 1 >>,
     << 42997, 42997, 1, 1 >>, << 65313, 65338, 1, 32 >>,
     << 66560, 66599, 1, 40 >>, << 66736, 66771, 1, 40 >>,
     << 66928, 66938, 1, 39 >>, << 66940, 66954, 1, 39 >>,
     << 66956, 66962, 1, 39 >>, << 66964, 66965, 1, 39 >>,
     << 68736, 68786, 1, 64 >>, << 71840, 71871, 1, 32 >>,
     << 93760, 93791, 1, 32 >>, << 125184, 125217, 1, 34 >> >>

\* Code points that are cased and not case-ignorable, as ranges (for the
\* context rule of capital sigma).
CasedTable ==
  << << 65, 90 >>, << 97, 122 >>, << 170, 170 >>, << 181, 181 >>,
     << 186, 186 >>, << 192, 214 >>, << 216, 246 >>, << 248, 442 >>,
     << 444, 447 >>, << 452, 659 >>, << 661, 687 >>, << 880, 883 >>,
     << 886, 887 >>, << 891, 893 >>, << 895, 895 >>, << 902, 902 >>,
     << 904, 906 >>, << 908, 908 >>, << 910, 929 >>, << 931, 1013 >>,
     << 1015, 1153 >>, << 1162, 1327 >>, << 1329, 1366 >>, << 1376, 1416 >>,
     << 4256, 4293 >>, << 4295, 4295 >>, << 4301, 4301 >>, << 4304, 4346 >>,
     << 4349, 4351 >>, << 5024, 5109 >>, << 5112, 5117 >>, << 7296, 7304 >>,
     << 7312, 7354 >>, << 7357, 7359 >>, << 7424, 7467 >>, << 7531, 7543 >>,
     << 7545, 7578 >>, << 7680, 7957 >>, << 7960, 7965 >>, << 7968, 8005 >>,
     << 8008, 8013 >>, << 8016, 8023 >>, << 8025, 8025 >>, << 8027, 8027 >>,
     << 8029, 8029 >>, << 8031, 8061 >>, << 8064, 8116 >>, << 8118, 8124 >>,
     << 8126, 8126 >>, << 8130, 8132 >>, << 8134, 8140 >>, << 8144, 8147 >>,
     << 8150, 8155 >>, << 8160, 8172 >>, << 8178, 8180 >>, << 8182, 8188 >>,
     << 8450, 8450 >>, << 8455, 8455 >>, << 8458, 8467 >>, << 8469, 8469 >>,
     << 8473, 8477 >>, << 8484, 8484 >>, << 8486, 8486 >>, << 8488, 8488 >>,
     << 8490, 8493 >>, << 8495, 8500 >>, << 8505, 8505 >>, << 8508, 8511 >>,
     << 8517, 8521 >>, << 8526, 8526 >>, << 8544, 8575 >>, << 8579, 8580 >>,
     << 9398, 9449 >>, << 11264, 11387 >>, << 11390, 11492 >>,
     << 11499, 11502 >>, << 11506, 11507 >>, << 11520, 11557 >>,
     << 11559, 11559 >>, << 11565, 11565 >>, << 42560, 42605 >>,
     << 42624, 42651 >>, << 42786, 42863 >>, << 42865, 42887 >>,
     << 42891, 42894 >>, << 42896, 42954 >>, << 42960, 42961 >>,
     << 42963, 42963 >>, << 42965, 42969 >>, << 42997, 42998 >>,
     << 43002, 43002 >>, << 43824, 43866 >>, << 43872, 43880 >>,
     << 43888, 43967 >>, << 64256, 64262 >>, << 64275, 64279 >>,
     << 65313, 65338 >>, << 65345, 65370 >>, << 66560, 66639 >>,
     << 66736, 66771 >>, << 66776, 66811 >>, << 66928, 66938 >>,
     << 66940, 66954 >>, << 66956, 66962 >>, << 66964, 66965 >>,
     << 66967, 66977 >>, << 66979, 66993 >>, << 66995, 67001 >>,
     << 67003, 67004 >>, << 68736, 68786 >>, << 68800, 68850 >>,
     << 71840, 71903 >>, << 93760, 93823 >>, << 119808, 119892 >>,
     << 119894, 119964 >>, << 119966, 119967 >>, << 119970, 119970 >>,
     << 119973, 119974 >>, << 119977, 119980 >>, << 119982, 119993 >>,
     << 119995, 119995 >>, << 119997, 120003 >>, << 120005, 120069 >>,
     << 120071, 120074 >>, << 120077, 120084 >>, << 120086, 120092 >>,
     << 120094, 120121 >>, << 120123, 120126 >>, << 120128, 120132 >>,
     << 120134, 120134 >>, << 120138, 120144 >>, << 120146, 120485 >>,
     << 120488, 120512 >>, << 120514, 120538 >>, << 120540, 120570 >>,
     << 120572, 120596 >>, << 120598, 120628 >>, << 120630, 120654 >>,
     << 120656, 120686 >>, << 120688, 120712 >>, << 120714, 120744 >>,
     << 120746, 120770 >>, << 120772, 120779 >>, << 122624, 122633 >>,
     << 122635, 122654 >>, << 122661, 122666 >>, << 125184, 125251 >>,
     << 127280, 127305 >>, << 127312, 127337 >>, << 127344, 127369 >> >>

\* Case-ignorable code points, as ranges.
CaseIgnorableTable ==
  << << 39, 39 >>, << 46, 46 >>, << 58, 58 >>, << 94, 94 >>, << 96, 96 >>,
     << 168, 168 >>, << 173, 173 >>, << 175, 175 >>, << 180, 180 >>,
     << 183, 184 >>, << 688, 879 >>, << 884, 885 >>, << 890, 890 >>,
     << 900, 901 >>, << 903, 903 >>, << 1155, 1161 >>, << 1369, 1369 >>,
     << 1375, 1375 >>, << 1425, 1469 >>, << 1471, 1471 >>, << 1473, 1474 >>,
     << 1476, 1477 >>, << 1479, 1479 >>, << 1524, 1524 >>, << 1536, 1541 >>,
     << 1552, 1562 >>, << 1564, 1564 >>, << 1600, 1600 >>, << 1611, 1631 >>,
     << 1648, 1648 >>, << 1750, 1757 >>, << 1759, 1768 >>, << 1770, 1773 >>,
     << 1807, 1807 >>, << 1809, 1809 >>, << 1840, 1866 >>, << 1958, 1968 >>,
     << 2027, 2037 >>, << 2042, 2042 >>, << 2045, 2045 >>, << 2070, 2093 >>,
     << 2137, 2139 >>, << 2184, 2184 >>, << 2192, 2193 >>, << 2200, 2207 >>,
     << 2249, 2306 >>, << 2362, 2362 >>, << 2364, 2364 >>, << 2369, 2376 >>,
     << 2381, 2381 >>, << 2385, 2391 >>, << 2402, 2403 >>, << 2417, 2417 >>,
     << 2433, 2433 >>, << 2492, 2492 >>, << 2497, 2500 >>, << 2509, 2509 >>,
     << 2530, 2531 >>, << 2558, 2558 >>, << 2561, 2562 >>, << 2620, 2620 >>,
     << 2625, 2626 >>, << 2631, 2632 >>, << 2635, 2637 >>, << 2641, 2641 >>,
     << 2672, 2673 >>, << 2677, 2677 >>, << 2689, 2690 >>, << 2748, 2748 >>,
     << 2753, 2757 >>, << 2759, 2760 >>, << 2765, 2765 >>, << 2786, 2787 >>,
     << 2810, 2815 >>, << 2817, 2817 >>, << 2876, 2876 >>, << 2879, 2879 >>,
     << 2881, 2884 >>, << 2893, 2893 >>, << 2901, 2902 >>, << 2914, 2915 >>,
     << 2946, 2946 >>, << 3008, 3008 >>, << 3021, 3021 >>, << 3072, 3072 >>,
     << 3076, 3076 >>, << 3132, 3132 >>, << 3134, 3136 >>, << 3142, 3144 >>,
     << 3146, 3149 >>, << 3157, 3158 >>, << 3170, 3171 >>, << 3201, 3201 >>,
     << 3260, 3260 >>, << 3263, 3263 >>, << 3270, 3270 >>, << 3276, 3277 >>,
     << 3298, 3299 >>, << 3328, 3329 >>, << 3387, 3388 >>, << 3393, 3396 >>,
     << 3405, 3405 >>, << 3426, 3427 >>, << 3457, 3457 >>, << 3530, 3530 >>,
     << 3538, 3540 >>, << 3542, 3542 >>, << 3633, 3633 >>, << 3636, 3642 >>,
     << 3654, 3662 >>, << 3761, 3761 >>, << 3764, 3772 >>, << 3782, 3782 >>,
     << 3784, 3790 >>, << 3864, 3865 >>, << 3893, 3893 >>, << 3895, 3895 >>,
     << 3897, 3897 >>, << 3953, 3966 >>, << 3968, 3972 >>, << 3974, 3975 >>,
     << 3981, 3991 >>, << 3993, 4028 >>, << 4038, 4038 >>, << 4141, 4144 >>,
     << 4146, 4151 >>, << 4153, 4154 >>, << 4157, 4158 >>, << 4184, 4185 >>,
     << 4190, 4192 >>, << 4209, 4212 >>, << 4226, 4226 >>, << 4229, 4230 >>,
     << 4237, 4237 >>, << 4253, 4253 >>, << 4348, 4348 >>, << 4957, 4959 >>,
     << 5906, 5908 >>, << 5938, 5939 >>, << 5970, 5971 >>, << 6002, 6003 >>,
     << 6068, 6069 >>, << 6071, 6077 >>, << 6086, 6086 >>, << 6089, 6099 >>,
     << 6103, 6103 >>, << 6109, 6109 >>, << 6155, 6159 >>, << 6211, 6211 >>,
     << 6277, 6278 >>, << 6313, 6313 >>, << 6432, 6434 >>, << 6439, 6440 >>,
     << 6450, 6450 >>, << 6457, 6459 >>, << 6679, 6680 >>, << 6683, 6683 >>,
     << 6742, 6742 >>, << 6744, 6750 >>, << 6752, 6752 >>, << 6754, 6754 >>,
     << 6757, 6764 >>, << 6771, 6780 >>, << 6783, 6783 >>, << 6823, 6823 >>,
     << 6832, 6862 >>, << 6912, 6915 >>, << 6964, 6964 >>, << 6966, 6970 >>,
     << 6972, 6972 >>, << 6978, 6978 >>, << 7019, 7027 >>, << 7040, 7041 >>,
     << 7074, 7077 >>, << 7080, 7081 >>, << 7083, 7085 >>, << 7142, 7142 >>,
     << 7144, 7145 >>, << 7149, 7149 >>, << 7151, 7153 >>, << 7212, 7219 >>,
     << 7222, 7223 >>, << 7288, 7293 >>, << 7376, 7378 >>, << 7380, 7392 >>,
     << 7394, 7400 >>, << 7405, 7405 >>, << 7412, 7412 >>, << 7416, 7417 >>,
     << 7468, 7530 >>, << 7544, 7544 >>, << 7579, 7679 >>, << 8125, 8125 >>,
     << 8127, 8129 >>, << 8141, 8143 >>, << 8157, 8159 >>, << 8173, 8175 >>,
     << 8189, 8190 >>, << 8203, 8207 >>, << 8216, 8217 >>, << 8228, 8228 >>,
     << 8231, 8231 >>, << 8234, 8238 >>, << 8288, 8292 >>, << 8294, 8303 >>,
     << 8305, 8305 >>, << 8319, 8319 >>, << 8336, 8348 >>, << 8400, 8432 >>,
     << 11388, 11389 >>, << 11503, 11505 >>, << 11631, 11631 >>,
     << 11647, 11647 >>, << 11744, 11775 >>, << 11823, 11823 >>,
     << 12293, 12293 >>, << 12330, 12333 >>, << 12337, 12341 >>,
     << 12347, 12347 >>, << 12441, 12446 >>, << 12540, 12542 >>,
     << 40981, 40981 >>, << 42232, 42237 >>, << 42508, 42508 >>,
     << 42607, 42610 >>, << 42612, 42621 >>, << 42623, 42623 >>,
     << 42652, 42655 >>, << 42736, 42737 >>, << 42752, 42785 >>,
     << 42864, 42864 >>, << 42888, 42890 >>, << 42994, 42996 >>,
     << 43000, 43001 >>, << 43010, 43010 >>, << 43014, 43014 >>,
     << 43019, 43019 >>, << 43045, 43046 >>, << 43052, 43052 >>,
     << 43204, 43205 >>, << 43232, 43249 >>, << 43263, 43263 >>,
     << 43302, 43309 >>, << 43335, 43345 >>, << 43392, 43394 >>,
     << 43443, 43443 >>, << 43446, 43449 >>, << 43452, 43453 >>,
     << 43471, 43471 >>, << 43493, 43494 >>, << 43561, 43566 >>,
     << 43569, 43570 >>, << 43573, 43574 >>, << 43587, 43587 >>,
     << 43596, 43596 >>, << 43632, 43632 >>, << 43644, 43644 >>,
     << 43696, 43696 >>, << 43698, 43700 >>, << 43703, 43704 >>,
     << 43710, 43711 >>, << 43713, 43713 >>, << 43741, 43741 >>,
     << 43756, 43757 >>, << 43763, 43764 >>, << 43766, 43766 >>,
     << 43867, 43871 >>, << 43881, 43883 >>, << 44005, 44005 >>,
     << 44008, 44008 >>, << 44013, 44013 >>, << 64286, 64286 >>,
     << 64434, 64450 >>, << 65024, 65039 >>, << 65043, 65043 >>,
     << 65056, 65071 >>, << 65106, 65106 >>, << 65109, 65109 >>,
     << 65279, 65279 >>, << 65287, 65287 >>, << 65294, 65294 >>,
     << 65306, 65306 >>, << 65342, 65342 >>, << 65344, 65344 >>,
     << 65392, 65392 >>, << 65438, 65439 >>, << 65507, 65507 >>,
     << 65529, 65531 >>, << 66045, 66045 >>, << 66272, 66272 >>,
     << 66422, 66426 >>, << 67456, 67461 >>, << 67463, 67504 >>,
     << 67506, 67514 >>, << 68097, 68099 >>, << 68101, 68102 >>,
     << 68108, 68111 >>, << 68152, 68154 >>, << 68159, 68159 >>,
     << 68325, 68326 >>, << 68900, 68903 >>, << 69291, 69292 >>,
     << 69373, 69375 >>, << 69446, 69456 >>, << 69506, 69509 >>,
     << 69633, 69633 >>, << 69688, 69702 >>, << 69744, 69744 >>,
     << 69747, 69748 >>, << 69759, 69761 >>, << 69811, 69814 >>,
     << 69817, 69818 >>, << 69821, 69821 >>, << 69826, 69826 >>,
     << 69837, 69837 >>, << 69888, 69890 >>, << 69927, 69931 >>,
     << 69933, 69940 >>, << 70003, 70003 >>, << 70016, 70017 >>,
     << 70070, 70078 >>, << 70089, 70092 >>, << 70095, 70095 >>,
     << 70191, 70193 >>, << 70196, 70196 >>, << 70198, 70199 >>,
     << 70206, 70206 >>, << 70209, 70209 >>, << 70367, 70367 >>,
     << 70371, 70378 >>, << 70400, 70401 >>, << 70459, 70460 >>,
     << 70464, 70464 >>, << 70502, 70508 >>, << 70512, 70516 >>,
     << 70712, 70719 >>, << 70722, 70724 >>, << 70726, 70726 >>,
     << 70750, 70750 >>, << 70835, 70840 >>, << 70842, 70842 >>,
     << 70847, 70848 >>, << 70850, 70851 >>, << 71090, 71093 >>,
     << 71100, 71101 >>, << 71103, 71104 >>, << 71132, 71133 >>,
     << 71219, 71226 >>, << 71229, 71229 >>, << 71231, 71232 >>,
     << 71339, 71339 >>, << 71341, 71341 >>, << 71344, 71349 >>,
     << 71351, 71351 >>, << 71453, 71455 >>, << 71458, 71461 >>,
     << 71463, 71467 >>, << 71727, 71735 >>, << 71737, 71738 >>,
     << 71995, 71996 >>, << 71998, 71998 >>, << 72003, 72003 >>,
     << 72148, 72151 >>, << 72154, 72155 >>, << 72160, 72160 >>,
     << 72193, 72202 >>, << 72243, 72248 >>, << 72251, 72254 >>,
     << 72263, 72263 >>, << 72273, 72278 >>, << 72281, 72283 >>,
     << 72330, 72342 >>, << 72344, 72345 >>, << 72752, 72758 >>,
     << 72760, 72765 >>, << 72767, 72767 >>, << 72850, 72871 >>,
     << 72874, 72880 >>, << 72882, 72883 >>, << 72885, 72886 >>,
     << 73009, 73014 >>, << 73018, 73018 >>, << 73020, 73021 >>,
     << 73023, 73029 >>, << 73031, 73031 >>, << 73104, 73105 >>,
     << 73109, 73109 >>, << 73111, 73111 >>, << 73459, 73460 >>,
     << 73472, 73473 >>, << 73526, 73530 >>, << 73536, 73536 >>,
     << 73538, 73538 >>, << 78896, 78912 >>, << 78919, 78933 >>,
     << 92912, 92916 >>, << 92976, 92982 >>, << 92992, 92995 >>,
     << 94031, 94031 >>, << 94095, 94111 >>, << 94176, 94177 >>,
     << 94179, 94180 >>, << 110576, 110579 >>, << 110581, 110587 >>,
     << 110589, 110590 >>, << 113821, 113822 >>, << 113824, 113827 >>,
     << 118528, 118573 >>, << 118576, 118598 >>, << 119143, 119145 >>,
     << 119155, 119170 >>, << 119173, 119179 >>, << 119210, 119213 >>,
     << 119362, 119364 >>, << 121344, 121398 >>, << 121403, 121452 >>,
     << 121461, 121461 >>, << 121476, 121476 >>, << 121499, 121503 >>,
     << 121505, 121519 >>, << 122880, 122886 >>, << 122888, 122904 >>,
     << 122907, 122913 >>, << 122915, 122916 >>, << 122918, 122922 >>,
     << 122928, 122989 >>, << 123023, 123023 >>, << 123184, 123197 >>,
     << 123566, 123566 >>, << 123628, 123631 >>, << 124139, 124143 >>,
     << 125136, 125142 >>, << 125252, 125259 >>, << 127995, 127999 >>,
     << 917505, 917505 >>, << 917536, 917631 >>, << 917760, 917999 >> >>

\* str.isspace().
WhitespaceTable ==
  << 9, 10, 11, 12, 13, 28, 29, 30, 31, 32, 133, 160, 5760, 8192, 8193, 8194,
     8195, 8196, 8197, 8198, 8199, 8200, 8201, 8202, 8232, 8233, 8239, 8287,
     12288 >>

\* The digit zero of every script with decimal digits; the nine code points
\* after it are its digits 1 to 9.
DecimalZeros ==
  << 48, 1632, 1776, 1984, 2406, 2534, 2662, 2790, 2918, 3046, 3174, 3302,
     3430, 3558, 3664, 3792, 3872, 4160, 4240, 6112, 6160, 6470, 6608, 6784,
     6800, 6992, 7088, 7232, 7248, 42528, 43216, 43264, 43472, 43504, 43600,
     44016, 65296, 66720, 68912, 69734, 69872, 69942, 70096, 70384, 70736,
     70864, 71248, 71360, 71472, 71904, 72016, 72784, 73040, 73120, 73552,
     92768, 92864, 93008, 120782, 120792, 120802, 120812, 120822, 123200,
     123632, 124144, 125264, 130032 >>

\* The last range among table[lo..hi] that begins at or before c, 0 when
\* there is none; the ranges of a table are disjoint and ascending.
RECURSIVE RangeBelow(_, _, _, _)
RangeBelow(table, c, lo, hi) ==
  IF lo > hi THEN hi
  ELSE LET mid == (lo + hi) \div 2 IN
       IF table[mid][1] <= c THEN RangeBelow(table, c, mid + 1, hi)
       ELSE RangeBelow(table, c, lo, mid - 1)

InRanges(c, table) ==
  LET k == RangeBelow(table, c, 1, Len(table))
  IN k > 0 /\ c <= table[k][2]

IsCased(c) == InRanges(c, CasedTable)

IsCaseIgnorable(c) == InRanges(c, CaseIgnorableTable)

\* str.lower() of the one-character string c: one code point, or two for
\* U+0130.
LowerChar(c) ==
  IF c = 304 THEN << 105, 775 >>
  ELSE LET k == RangeBelow(LowerTable, c, 1, Len(LowerTable))
       IN IF /\ k > 0
             /\ c <= LowerTable[k][2]
             /\ (c - LowerTable[k][1]) % LowerTable[k][3] = 0
          THEN << c + LowerTable[k][4] >>
          ELSE << c >>

\* The nearest position at or before j (at or after j) whose code point is
\* not case-ignorable; 0 (Len(s) + 1) when there is none.
RECURSIVE LastNotIgnorable(_, _)
LastNotIgnorable(s, j) ==
  IF j = 0 THEN 0
  ELSE IF IsCaseIgnorable(s[j]) THEN LastNotIgnorable(s, j - 1)
  ELSE j

RECURSIVE NextNotIgnorable(_, _)
NextNotIgnorable(s, j) ==
  IF j > Len(s) THEN j
  ELSE IF IsCaseIgnorable(s[j]) THEN NextNotIgnorable(s, j + 1)
  ELSE j

\* Capital sigma at position i becomes the final form when a cased letter
\* stands before it and none after it, case-ignorable code points skipped.
FinalSigma(s, i) ==
  LET before == LastNotIgnorable(s, i - 1)
      after == NextNotIgnorable(s, i + 1)
  IN /\ before > 0
     /\ IsCased(s[before])
     /\ (after > Len(s) \/ ~ IsCased(s[after]))

RECURSIVE LowerFrom(_, _)
LowerFrom(s, i) ==
  IF i > Len(s) THEN << >>
  ELSE (IF s[i] = 931
        THEN << IF FinalSigma(s, i) THEN 962 ELSE 963 >>
        ELSE LowerChar(s[i]))
       \o LowerFrom(s, i + 1)

\* str.lower()
Lower(s) == LowerFrom(s, 1)

\* Python's ordering of str: code point by code point, a proper prefix first.
RECURSIVE StrLess(_, _)
StrLess(s, t) ==
  IF t = <<>> THEN FALSE
  ELSE IF s = <<>> THEN TRUE
  ELSE IF s[1] # t[1] THEN s[1] < t[1]
  ELSE StrLess(Tail(s), Tail(t))

\* str.replace(old, new) for single characters.
ReplaceChar(s, old, new) == [i \in 1..Len(s) |-> IF s[i] = old THEN new ELSE s[i]]

\* str.replace(old, '') for a single character.
RemoveChar(s, old) == SelectSeq(s, LAMBDA c : c # old)

\* str.replace('  ', ' '): non-overlapping occurrences, left to right.
RECURSIVE ReplaceDoubleSpace(_)
ReplaceDoubleSpace(s) ==
  IF Len(s) < 2 THEN s
  ELSE IF s[1] = 32 /\ s[2] = 32
       THEN << 32 >> \o ReplaceDoubleSpace(Tail(Tail(s)))
       ELSE << s[1] >> \o ReplaceDoubleSpace(Tail(s))

\* str.split(sep): the segments between separators, empty ones included.
RECURSIVE SplitFrom(_, _, _)
SplitFrom(s, sep, current) ==
  IF s = << >> THEN << current >>
  ELSE IF s[1] = sep
       THEN << current >> \o SplitFrom(Tail(s), sep, << >>)
       ELSE SplitFrom(Tail(s), sep, Append(current, s[1]))

Split(s, sep) == SplitFrom(s, sep, << >>)

IsSpace(c) == \E k \in 1..Len(WhitespaceTable) : WhitespaceTable[k] = c

\* str.strip()
RECURSIVE LStrip(_)
LStrip(s) == IF s # << >> /\ IsSpace(s[1]) THEN LStrip(Tail(s)) ELSE s

RECURSIVE RStrip(_)
RStrip(s) ==
  IF s # << >> /\ IsSpace(s[Len(s)]) THEN RStrip(SubSeq(s, 1, Len(s) - 1)) ELSE s

Strip(s) == RStrip(LStrip(s))

(***************************************************************************)
(* int(text) and float(text).  Both first turn every decimal digit into    *)
(* its ASCII digit and every non-ASCII whitespace into a blank, drop the   *)
(* blanks at both ends and take out the underscores that stand between     *)
(* two digits.                                                             *)
(***************************************************************************)
\* The value of a decimal digit of any script, -1 for any other code point.
DecimalValue(c) ==
  LET hits == { k \in 1..Len(DecimalZeros) :
                  c >= DecimalZeros[k] /\ c <= DecimalZeros[k] + 9 }
  IN IF hits = {} THEN -1 ELSE c - DecimalZeros[CHOOSE k \in hits : TRUE]

\* The whitespace the two conversions skip: the ASCII blanks 9-13 and 32
\* and the whitespace beyond ASCII, not the separators 28-31.
IsNumberSpace(c) == IsSpace(c) /\ (c < 28 \/ c > 31)

\* The text as the conversions read it: ASCII digits, blanks for
\* whitespace, '?' for any other code point beyond ASCII.
ToAscii(s) ==
  [ i \in 1..Len(s) |->
      IF DecimalValue(s[i]) >= 0 THEN 48 + DecimalValue(s[i])
      ELSE IF IsNumberSpace(s[i]) THEN 32
      ELSE IF s[i] > 127 THEN 63
      ELSE s[i] ]

RECURSIVE LStripBlank(_)
LStripBlank(s) == IF s # << >> /\ s[1] = 32 THEN LStripBlank(Tail(s)) ELSE s

RECURSIVE RStripBlank(_)
RStripBlank(s) ==
  IF s # << >> /\ s[Len(s)] = 32 THEN RStripBlank(SubSeq(s, 1, Len(s) - 1)) ELSE s

IsDigit(c) == c >= 48 /\ c <= 57

\* Every underscore stands between two digits.
UnderscoresBetweenDigits(s) ==
  \A i \in 1..Len(s) :
     s[i] = 95 => /\ i > 1 /\ IsDigit(s[i - 1])
                  /\ i < Len(s) /\ IsDigit(s[i + 1])

\* The literal of a number: the text in ASCII, trimmed, without its
\* underscores; ok is FALSE when an underscore is misplaced.
NumberLiteral(s) ==
  LET t == RStripBlank(LStripBlank(ToAscii(s))) IN
  [ ok |-> UnderscoresBetweenDigits(t), text |-> RemoveChar(t, 95) ]

IsSign(c) == c = 43 \/ c = 45

\* A non-empty run of ASCII digits.
IsAsciiDigits(s) == s # << >> /\ \A i \in 1..Len(s) : IsDigit(s[i])

RECURSIVE DigitsValue(_)
DigitsValue(s) ==
  IF s = << >> THEN 0
  ELSE DigitsValue(SubSeq(s, 1, Len(s) - 1)) * 10 + (s[Len(s)] - 48)

Signed(sign, value) == IF sign = << 45 >> THEN 0 - value ELSE value

\* An optional sign and what follows it.
SplitSign(s) ==
  IF s # << >> /\ IsSign(s[1]) THEN [ sign |-> << s[1] >>, rest |-> Tail(s) ]
  ELSE [ sign |-> << >>, rest |-> s ]

\* int(text): an optional sign and decimal digits.
int(text) ==
  LET literal == NumberLiteral(text)
      part == SplitSign(literal.text)
  IN IF literal.ok /\ IsAsciiDigits(part.rest)
     THEN [ exc |-> "none", v |-> Signed(part.sign, DigitsValue(part.rest)) ]
     ELSE [ exc |-> "ValueError", v |-> 0 ]

RECURSIVE Power10(_)
Power10(n) == IF n = 0 THEN 1 ELSE 10 * Power10(n - 1)

\* The leading ASCII digits of s.
RECURSIVE LeadingDigits(_)
LeadingDigits(s) ==
  IF s # << >> /\ IsDigit(s[1]) THEN << s[1] >> \o LeadingDigits(Tail(s)) ELSE << >>

\* ASCII letters in lower case, for inf, infinity and nan.
AsciiLower(s) == [ i \in 1..Len(s) |-> IF s[i] >= 65 /\ s[i] <= 90 THEN s[i] + 32 ELSE s[i] ]

\* The value mantissa * 10^exponent: a whole number where it is one, else
\* the exact decimal fraction in lowest terms.  (Binary rounding and the
\* overflow of exponents beyond the range of float are not represented.)
RECURSIVE Decimal(_, _)
Decimal(mantissa, exponent) ==
  IF exponent >= 0 THEN mantissa * Power10(exponent)
  ELSE IF mantissa % 10 = 0 THEN Decimal(mantissa \div 10, exponent + 1)
  ELSE [ float |-> "fraction", mantissa |-> mantissa, exponent |-> exponent ]

\* s without its leading digits.
DropDigits(s) == SubSeq(s, Len(LeadingDigits(s)) + 1, Len(s))

\* The mantissa at the head of body, digits with an optional point: its
\* digits, the number of them after the point, and the text after it.
Mantissa(body) ==
  LET after == DropDigits(body) IN
  IF after # << >> /\ after[1] = 46
  THEN [ digits |-> LeadingDigits(body) \o LeadingDigits(Tail(after)),
         scale |-> Len(LeadingDigits(Tail(after))),
         rest |-> DropDigits(Tail(after)) ]
  ELSE [ digits |-> LeadingDigits(body), scale |-> 0, rest |-> after ]

\* What may follow the mantissa: nothing, or e or E with signed digits.
Exponent(rest) ==
  IF rest = << >> THEN [ ok |-> TRUE, v |-> 0 ]
  ELSE IF rest[1] \in { 69, 101 } /\ IsAsciiDigits(SplitSign(Tail(rest)).rest)
  THEN [ ok |-> TRUE,
         v |-> Signed(SplitSign(Tail(rest)).sign,
                      DigitsValue(SplitSign(Tail(rest)).rest)) ]
  ELSE [ ok |-> FALSE, v |-> 0 ]

\* Digits with an optional point and an optional exponent.
float_number(sign, body) ==
  LET mantissa == Mantissa(body)
      exponent == Exponent(mantissa.rest)
  IN IF mantissa.digits # << >> /\ exponent.ok
     THEN [ exc |-> "none",
            v |-> Decimal(Signed(sign, DigitsValue(mantissa.digits)),
                          exponent.v - mantissa.scale) ]
     ELSE [ exc |-> "ValueError", v |-> 0 ]

\* float(text): an optional sign, then inf, infinity or nan in any case, or
\* a number.
float(text) ==
  LET literal == NumberLiteral(text)
      part == SplitSign(literal.text)
      word == AsciiLower(part.rest)
  IN IF ~ literal.ok THEN [ exc |-> "ValueError", v |-> 0 ]
     ELSE IF word = << 110, 97, 110 >>
     THEN [ exc |-> "none", v |-> [ float |-> "nan" ] ]
     ELSE IF word \in { << 105, 110, 102 >>,
                        << 105, 110, 102, 105, 110, 105, 116, 121 >> }
     THEN [ exc |-> "none",
            v |-> [ float |-> IF part.sign = << 45 >> THEN "-inf" ELSE "inf" ] ]
     ELSE float_number(part.sign, part.rest)

(***************************************************************************)
(* models.py: DetailTypes.                                                 *)
(***************************************************************************)
\* The members of the enumeration, in definition order.
DetailTypesMembers == << "detail", "assembly_unit", "other", "standard", "material" >>

\* DetailTypes.<member>.value
DetailTypeValue(member) ==
  CASE member = "detail" ->
         << 1076, 1077, 1090, 1072, 1083, 1080 >>
    [] member = "assembly_unit" ->
         << 1089, 1073, 1086, 1088, 1086, 1095, 1085, 1099, 1077, 32,
            1077, 1076, 1080, 1085, 1080, 1094, 1099 >>
    [] member = "other" ->
         << 1087, 1088, 1086, 1095, 1080, 1077, 32,
            1080, 1079, 1076, 1077, 1083, 1080, 1103 >>
    [] member = "standard" ->
         << 1089, 1090, 1072, 1085, 1076, 1072, 1088, 1090, 1085, 1099, 1077, 32,
            1080, 1079, 1076, 1077, 1083, 1080, 1103 >>
    [] member = "material" ->
         << 1084, 1072, 1090, 1077, 1088, 1080, 1072, 1083, 1099 >>

\* Attribute access DetailTypes.<member>: AttributeError when the
\* enumeration has no such member.
HasMember(member) == \E i \in 1..Len(DetailTypesMembers) : DetailTypesMembers[i] = member

\* DetailTypes.get_type: the first member whose value equals
\* type_name.lower(); IncorrectRow when there is none.
RECURSIVE get_type_from(_, _)
get_type_from(type_name, i) ==
  IF i > Len(DetailTypesMembers) THEN "IncorrectRow"
  ELSE IF DetailTypeValue(DetailTypesMembers[i]) = Lower(type_name)
       THEN DetailTypesMembers[i]
       ELSE get_type_from(type_name, i + 1)

get_type(type_name) == get_type_from(type_name, 1)

(***************************************************************************)
(* models.py: the two record classes.                                      *)
(***************************************************************************)
\* The keyword arguments the generated AssemblyUnit.__init__ accepts.
AssemblyUnitFields ==
  { "number", "name", "components", "detail_type", "amount", "count_in_device" }

\* The keyword arguments the generated SpecificationEntity.__init__ accepts.
SpecificationEntityFields ==
  { "number", "name", "detail_type", "code", "work_file", "making_type",
    "material", "comment", "is_order", "amount", "count_in_device" }

\* Python's None.
None == [ none |-> TRUE ]

\* The default of AssemblyUnit.components (line 59): None, no list.
DefaultComponents == None

\* AssemblyUnit(number=, name=, components=, amount=, count_in_device=);
\* detail_type keeps its default.  A call without components= holds
\* DefaultComponents.
AssemblyUnit(number, name, components, amount, count_in_device) ==
  [ cls |-> "AssemblyUnit", number |-> number, name |-> name,
    components |-> components, detail_type |-> "assembly_unit",
    amount |-> amount, count_in_device |-> count_in_device ]

SpecificationEntity(number, name, detail_type, amount, count_in_device) ==
  [ cls |-> "SpecificationEntity", number |-> number, name |-> name,
    detail_type |-> detail_type,
    amount |-> amount, count_in_device |-> count_in_device ]

\* AssemblyUnit.is_detail_in_assembly: the for/else loop over self.number.
RECURSIVE is_detail_loop(_, _, _)
is_detail_loop(self, detail, i) ==
  IF i > Len(self.number) THEN TRUE
  ELSE IF self.number[i] # detail.number[i] THEN FALSE
  ELSE is_detail_loop(self, detail, i + 1)

\* Variant: any descendant, not only an immediate child.
is_detail_in_assembly_descendant(self, detail) ==
  IF Len(detail.number) - Len(self.number) >= 1
  THEN is_detail_loop(self, detail, 1)
  ELSE FALSE

is_detail_in_assembly(self, detail) ==
  IF Len(detail.number) - Len(self.number) = 1
  THEN is_detail_loop(self, detail, 1)
  ELSE FALSE

(***************************************************************************)
(* excel.py: the aggregation map and find_assembly.                        *)
(***************************************************************************)
EmptyDict == [n \in {} |-> 0]

DictSet(d, k, v) == [x \in (DOMAIN d) \cup {k} |-> IF x = k THEN v ELSE d[x]]

\* Variant: the quantity recorded leaves amount_upper out.
record_attached_without_upper(counter, component, model, amount_upper) ==
  IF model.name \notin DOMAIN counter
  THEN DictSet(counter, model.name,
               [model EXCEPT !.count_in_device =
                  component.count_in_device * model.amount])
  ELSE [counter EXCEPT ![model.name].count_in_device =
          @ + component.count_in_device * model.amount]

\* Lines 423-427: what find_assembly records for a model attached under
\* component, reached with amount_upper.
record_attached(counter, component, model, amount_upper) ==
  IF model.name \notin DOMAIN counter
  THEN DictSet(counter, model.name,
               [model EXCEPT !.count_in_device =
                  component.count_in_device * amount_upper * model.amount])
  ELSE [counter EXCEPT ![model.name].count_in_device =
          @ + component.count_in_device * amount_upper * model.amount]

\* find_assembly: depth-first, in child-list order; the first assembly that
\* is the model's immediate parent takes it.  The result carries the
\* collection and the map as the call leaves them.  Every assembly of the
\* collection holds a list of components, as those collect_model builds
\* (components=list(), line 375).
RECURSIVE find_assembly_from(_, _, _, _, _)
find_assembly_from(models_collection, i, model, amount_upper, counter) ==
  IF i > Len(models_collection)
  THEN [ found |-> FALSE, coll |-> models_collection, counter |-> counter ]
  ELSE
    LET component == models_collection[i] IN
    IF component.cls = "AssemblyUnit"
    THEN
      IF is_detail_in_assembly(component, model)
      THEN [ found |-> TRUE,
             coll |-> [models_collection EXCEPT
                         ![i].components = Append(@, model)],
             counter |-> record_attached(counter, component, model, amount_upper) ]
      ELSE
        LET inner == find_assembly_from(component.components, 1, model,
                                        component.count_in_device, counter) IN
        IF inner.found
        THEN [ found |-> TRUE,
               coll |-> [models_collection EXCEPT ![i].components = inner.coll],
               counter |-> inner.counter ]
        ELSE find_assembly_from(models_collection, i + 1, model,
                                amount_upper, counter)
    ELSE find_assembly_from(models_collection, i + 1, model, amount_upper, counter)

find_assembly(models_collection, model, counter) ==
  find_assembly_from(models_collection, 1, model, 1, counter)

\* Lines 403-405: a model no assembly took becomes a top-level root and its
\* snapshot is stored under its name.
promote(forest, counter, model) ==
  [ coll |-> Append(forest, model),
    counter |-> DictSet(counter, model.name, model) ]

\* Variant: a model an assembly took is appended to the roots as well.
attach_model_also_promotes(forest, counter, model) ==
  LET result == find_assembly(forest, model, counter) IN
  IF result.found
  THEN [ coll |-> Append(result.coll, model), counter |-> result.counter ]
  ELSE promote(forest, counter, model)

\* collect_model, lines 402-405, applied to a constructed model.
attach_model(forest, counter, model) ==
  LET result == find_assembly(forest, model, counter) IN
  IF result.found
  THEN [ coll |-> result.coll, counter |-> result.counter ]
  ELSE promote(forest, counter, model)

(***************************************************************************)
(* excel.py: ExcelOutput.create_absolute_sheet.                            *)
(***************************************************************************)
\* dataclasses.asdict: the columns one entry contributes to the data frame.
asdict_columns(detail) ==
  IF detail.cls = "AssemblyUnit" THEN AssemblyUnitFields
  ELSE SpecificationEntityFields

\* Line 95: the columns dropped, and line 98: the columns selected.
dropped_columns == { "number", "components", "amount" }

new_order ==
  { "name", "code", "work_file", "detail_type", "making_type", "material",
    "is_order", "count_in_device", "comment" }

\* Lines 96-97: detail_type replaced by its value, then
\* sort_values(by=['detail_type', 'name']) on those strings.
sheet_row(detail) ==
  [ name |-> detail.name,
    detail_type |-> DetailTypeValue(detail.detail_type),
    count_in_device |-> detail.count_in_device ]

sort_key_less(a, b) ==
  \/ StrLess(a.detail_type, b.detail_type)
  \/ a.detail_type = b.detail_type /\ StrLess(a.name, b.name)

RECURSIVE sort_values(_)
sort_values(rows) ==
  IF rows = {} THEN <<>>
  ELSE LET first == CHOOSE x \in rows :
                      \A y \in rows \ {x} : sort_key_less(x, y)
       IN << first >> \o sort_values(rows \ {first})

\* The report, or KeyError when drop() or the column selection misses a
\* column (the frame has the union of the entries' fields as columns).
create_absolute_sheet(details) ==
  LET columns == UNION { asdict_columns(details[n]) : n \in DOMAIN details } IN
  IF ~ (dropped_columns \subseteq columns)
  THEN [ exc |-> "KeyError", rows |-> << >> ]
  ELSE IF ~ (new_order \subseteq (columns \ dropped_columns))
  THEN [ exc |-> "KeyError", rows |-> << >> ]
  ELSE [ exc |-> "none",
         rows |-> sort_values({ sheet_row(details[n]) : n \in DOMAIN details }) ]

(***************************************************************************)
(* The inputs of the forest-level specification: constructed records.      *)
(***************************************************************************)
Ones(d) == [i \in 1..d |-> 1]

\* Position paths: the chain 1, 1.1, 1.1.1, ... and a second device, 2.
Numbers == { Ones(d) : d \in 1..MaxDepth } \cup { << 2 >> }

Amounts == { 2, 3 }

\* The k-th name: "A", "B", "C", ...
Name(k) == << 64 + k >>

\* Names are told apart only by equality, so a row uses either a name
\* already in the map or the next unused one.
NameChoices(counter) == { Name(k) : k \in 1..(Cardinality(DOMAIN counter) + 1) }

Records(counter) ==
  { AssemblyUnit(n, nm, << >>, a, a) :
      n \in Numbers, nm \in NameChoices(counter), a \in Amounts }
  \cup
  { SpecificationEntity(n, nm, "detail", a, a) :
      n \in Numbers, nm \in NameChoices(counter), a \in Amounts }

(***************************************************************************)
(* excel.py: the data frame.  A frame is its column names and its rows; a  *)
(* row is the sequence of its cells; a cell is blank (NaN) or a text.      *)
(* Numeric cells are carried as the text str() gives them.                 *)
(***************************************************************************)
\* No result yet.
NoResult == [ exc |-> "unset" ]

NaN == [ na |-> TRUE, v |-> << >> ]

Cell(text) == [ na |-> FALSE, v |-> text ]

Frame(columns, rows) == [ columns |-> columns, rows |-> rows ]

\* row.iloc[k]
iloc(row, k) == row[k + 1]

\* config.py: NECESSARY_COLUMNS.
NECESSARY_COLUMNS ==
  << \* 'уровень'
     << 1091, 1088, 1086, 1074, 1077, 1085, 1100 >>,
     \* 'наименование'
     << 1085, 1072, 1080, 1084, 1077, 1085, 1086, 1074, 1072, 1085,
        1080, 1077 >>,
     \* 'обозначение'
     << 1086, 1073, 1086, 1079, 1085, 1072, 1095, 1077, 1085, 1080,
        1077 >>,
     \* 'имя_рабочего_файла'
     << 1080, 1084, 1103, 95, 1088, 1072, 1073, 1086, 1095, 1077,
        1075, 1086, 95, 1092, 1072, 1081, 1083, 1072 >>,
     \* 'раздел'
     << 1088, 1072, 1079, 1076, 1077, 1083 >>,
     \* 'способ изготовления'
     << 1089, 1087, 1086, 1089, 1086, 1073, 32, 1080, 1079, 1075,
        1086, 1090, 1086, 1074, 1083, 1077, 1085, 1080, 1103 >>,
     \* 'материал'
     << 1084, 1072, 1090, 1077, 1088, 1080, 1072, 1083 >>,
     \* 'заказ на стороне'
     << 1079, 1072, 1082, 1072, 1079, 32, 1085, 1072, 32, 1089,
        1090, 1086, 1088, 1086, 1085, 1077 >>,
     \* 'количество'
     << 1082, 1086, 1083, 1080, 1095, 1077, 1089, 1090, 1074, 1086 >>,
     \* 'примечание'
     << 1087, 1088, 1080, 1084, 1077, 1095, 1072, 1085, 1080, 1077 >> >>

\* config.py: NOT_NEED_COLUMNS, ('PART NUMBER',).
NOT_NEED_COLUMNS == << << 80, 65, 82, 84, 32, 78, 85, 77, 66, 69, 82 >> >>

\* 'Количество в приборе', the column read_excel_file adds (line 230).
CountInDeviceColumn ==
  << 1050, 1086, 1083, 1080, 1095, 1077, 1089, 1090, 1074, 1086,
     32, 1074, 32, 1087, 1088, 1080, 1073, 1086, 1088, 1077 >>

\* The positions of the columns called name.
ColumnsNamed(frame, name) ==
  { i \in 1..Len(frame.columns) : frame.columns[i] = name }

\* Line 230: the column is set to NaN in every row, appended when the frame
\* has none of that name.
add_count_column(frame) ==
  LET at == ColumnsNamed(frame, CountInDeviceColumn) IN
  IF at = {}
  THEN Frame(Append(frame.columns, CountInDeviceColumn),
             [ r \in 1..Len(frame.rows) |-> Append(frame.rows[r], NaN) ])
  ELSE Frame(frame.columns,
             [ r \in 1..Len(frame.rows) |->
                 [ i \in 1..Len(frame.columns) |->
                     IF i \in at THEN NaN ELSE frame.rows[r][i] ] ])

\* replace_spaces_to_none: a text of whitespace only (or empty) becomes NaN.
replace_spaces_to_none(frame) ==
  Frame(frame.columns,
        [ r \in 1..Len(frame.rows) |->
            [ i \in 1..Len(frame.columns) |->
                LET cell == frame.rows[r][i] IN
                IF ~ cell.na /\ \A k \in 1..Len(cell.v) : IsSpace(cell.v[k])
                THEN NaN ELSE cell ] ])

\* delete_word_break: line feeds are taken out of the column names.
delete_word_break(frame) ==
  Frame([ i \in 1..Len(frame.columns) |-> RemoveChar(frame.columns[i], 10) ],
        frame.rows)

\* check_columns_kit: every necessary column is among the lower-cased names.
check_columns_kit(frame) ==
  LET columns_from_file == [ i \in 1..Len(frame.columns) |-> Lower(frame.columns[i]) ]
  IN IF \A k \in 1..Len(NECESSARY_COLUMNS) :
           \E i \in 1..Len(columns_from_file) :
              columns_from_file[i] = NECESSARY_COLUMNS[k]
     THEN "none" ELSE "IncorrectColumns"

\* read_excel_file, lines 229-233, on the frame pd.read_excel returned: the
\* frame assigned to file_contents and the exception raised, if any.
read_excel_file(raw) ==
  LET frame == delete_word_break(replace_spaces_to_none(add_count_column(raw)))
  IN [ exc |-> check_columns_kit(frame), frame |-> frame ]

\* Line 266: column 0 as str; a blank cell becomes the text 'nan'.
astype_str(frame) ==
  Frame(frame.columns,
        [ r \in 1..Len(frame.rows) |->
            [ frame.rows[r] EXCEPT ![1] =
                IF @.na THEN Cell(<< 110, 97, 110 >>) ELSE @ ] ])

\* check_row_number: commas in column 0 become dots.
check_row_number(row) == [ row EXCEPT ![1] = Cell(ReplaceChar(@.v, 44, 46)) ]

\* The replacements of check_word_break on one text.
clean_text(text) ==
  ReplaceDoubleSpace(
    ReplaceChar(ReplaceChar(ReplaceChar(ReplaceChar(text, 10, 32), 9, 32), 13, 32),
                160, 32))

\* check_word_break: every cell that is not blank is cleaned.
check_word_break(row) ==
  [ i \in 1..Len(row) |-> IF row[i].na THEN row[i] ELSE Cell(clean_text(row[i].v)) ]

\* check_empty_row: row.iloc[1:-1].isna().all().
check_empty_row(row) == \A i \in 2..(Len(row) - 1) : row[i].na

\* fix_row: the row as written back to the frame, and whether its index
\* goes to empty_index.
fix_row(row) ==
  LET cleaned == check_word_break(check_row_number(row))
  IN [ row |-> cleaned, empty |-> check_empty_row(cleaned) ]

\* [int(number) for number in row.iloc[0].split('.')]
parse_number(position) ==
  LET parts == Split(position, 46) IN
  IF \E i \in 1..Len(parts) : int(parts[i]).exc # "none"
  THEN [ exc |-> "ValueError", v |-> << >> ]
  ELSE [ exc |-> "none", v |-> [i \in 1..Len(parts) |-> int(parts[i]).v] ]

\* float(row.iloc[8]); a blank cell is the float nan.
parse_amount(cell) ==
  IF cell.na THEN [ exc |-> "none", v |-> [ float |-> "nan" ] ]
  ELSE float(cell.v)

\* The keyword arguments collect_model passes to AssemblyUnit (373-385) and
\* to SpecificationEntity (387-399).
assembly_kwargs ==
  { "number", "components", "amount", "name", "code", "work_file", "material",
    "making_type", "comment", "is_order", "count_in_device" }

entity_kwargs ==
  { "number", "name", "detail_type", "code", "work_file", "making_type",
    "material", "comment", "is_order", "amount", "count_in_device" }

Raise(exc) == [ exc |-> exc, model |-> None ]

\* Lines 373-385: the arguments are evaluated in order, then the call, which
\* accepts the keywords in fields only.
build_assembly(row, fields) ==
  LET number == parse_number(iloc(row, 0).v)
      amount == parse_amount(iloc(row, 8))
  IN IF number.exc # "none" THEN Raise(number.exc)
     ELSE IF amount.exc # "none" THEN Raise(amount.exc)
     ELSE IF iloc(row, 1).na THEN Raise("AttributeError")
     ELSE IF ~ (assembly_kwargs \subseteq fields) THEN Raise("TypeError")
     ELSE [ exc |-> "none",
            model |-> AssemblyUnit(number.v, Strip(iloc(row, 1).v), << >>, amount.v,
                                   amount.v) ]

\* Lines 387-399.
build_entity(row, fields) ==
  LET number == parse_number(iloc(row, 0).v)
      detail_type == get_type(iloc(row, 4).v)
      amount == parse_amount(iloc(row, 8))
  IN IF number.exc # "none" THEN Raise(number.exc)
     ELSE IF iloc(row, 1).na THEN Raise("AttributeError")
     ELSE IF detail_type = "IncorrectRow" THEN Raise("IncorrectRow")
     ELSE IF amount.exc # "none" THEN Raise(amount.exc)
     ELSE IF ~ (entity_kwargs \subseteq fields) THEN Raise("TypeError")
     ELSE [ exc |-> "none",
            model |-> SpecificationEntity(number.v, Strip(iloc(row, 1).v),
                                          detail_type, amount.v, amount.v) ]

\* collect_model, lines 370-399: the record built from a row, or the
\* exception raised.  The test of line 372 reads DetailTypes.assembly_unit_2
\* whenever its first comparison fails.
build_model(row) ==
  IF iloc(row, 4).na THEN Raise("IncorrectRow")
  ELSE
    LET category == Lower(iloc(row, 4).v)
        first == category = Lower(DetailTypeValue("assembly_unit"))
    IN IF first THEN build_assembly(row, AssemblyUnitFields)
       ELSE IF ~ HasMember("assembly_unit_2") THEN Raise("AttributeError")
       ELSE IF category = Lower(DetailTypeValue("assembly_unit_2"))
            THEN build_assembly(row, AssemblyUnitFields)
            ELSE build_entity(row, SpecificationEntityFields)

\* work_with_rows, line 276: the rows whose index is in empty_index are
\* dropped (indices count from 0).
drop_rows(frame, indices) ==
  LET Kept(i) == \A k \in 1..Len(indices) : indices[k] # i - 1
      RECURSIVE Keep(_)
      Keep(i) == IF i > Len(frame.rows) THEN << >>
                 ELSE IF Kept(i) THEN << frame.rows[i] >> \o Keep(i + 1)
                 ELSE Keep(i + 1)
  IN Frame(frame.columns, Keep(1))

\* The cells of seq at the positions that are not in dropped.
RECURSIVE WithoutPositions(_, _, _)
WithoutPositions(s, dropped, i) ==
  IF i > Len(s) THEN << >>
  ELSE (IF i \in dropped THEN << >> ELSE << s[i] >>)
       \o WithoutPositions(s, dropped, i + 1)

\* delete_columns: the columns of the given names are dropped, missing
\* ones ignored.
delete_columns(frame, columns) ==
  LET dropped == { i \in 1..Len(frame.columns) :
                     \E k \in 1..Len(columns) : frame.columns[i] = columns[k] }
  IN Frame(WithoutPositions(frame.columns, dropped, 1),
           [ r \in 1..Len(frame.rows) |->
               WithoutPositions(frame.rows[r], dropped, 1) ])

(***************************************************************************)
(* The input files: frames as pd.read_excel returns them.                  *)
(***************************************************************************)
TextDeviceA == << 68, 101, 118, 105, 99, 101, 65 >>
TextBracket == << 66, 114, 97, 99, 107, 101, 116 >>
TextBolt == << 66, 111, 108, 116 >>
\* 'Сборочные единицы', capitalised
TextAssemblyCapital ==
  << 1057, 1073, 1086, 1088, 1086, 1095, 1085, 1099, 1077, 32,
     1077, 1076, 1080, 1085, 1080, 1094, 1099 >>
\* 'винты', no category of the vocabulary
TextUnknown == << 1074, 1080, 1085, 1090, 1099 >>
\* 'PN-1'
TextPartNumber == << 80, 78, 45, 49 >>

\* The headers of a specification file, in the order of NECESSARY_COLUMNS.
StandardColumns ==
  << \* 'Уровень'
     << 1059, 1088, 1086, 1074, 1077, 1085, 1100 >>,
     \* 'Наименование'
     << 1053, 1072, 1080, 1084, 1077, 1085, 1086, 1074, 1072, 1085,
        1080, 1077 >>,
     \* 'Обозначение'
     << 1054, 1073, 1086, 1079, 1085, 1072, 1095, 1077, 1085, 1080,
        1077 >>,
     \* 'Имя_рабочего_файла'
     << 1048, 1084, 1103, 95, 1088, 1072, 1073, 1086, 1095, 1077,
        1075, 1086, 95, 1092, 1072, 1081, 1083, 1072 >>,
     \* 'Раздел'
     << 1056, 1072, 1079, 1076, 1077, 1083 >>,
     \* 'Способ изготовления'
     << 1057, 1087, 1086, 1089, 1086, 1073, 32, 1080, 1079, 1075,
        1086, 1090, 1086, 1074, 1083, 1077, 1085, 1080, 1103 >>,
     \* 'Материал'
     << 1052, 1072, 1090, 1077, 1088, 1080, 1072, 1083 >>,
     \* 'Заказ на стороне'
     << 1047, 1072, 1082, 1072, 1079, 32, 1085, 1072, 32, 1089,
        1090, 1086, 1088, 1086, 1085, 1077 >>,
     \* 'Количество'
     << 1050, 1086, 1083, 1080, 1095, 1077, 1089, 1090, 1074, 1086 >>,
     \* 'Примечание'
     << 1055, 1088, 1080, 1084, 1077, 1095, 1072, 1085, 1080, 1077 >> >>

\* A row under StandardColumns: level, name, category and amount; the
\* other cells are blank.
Row(position, name, category, amount) ==
  << Cell(position), name, NaN, NaN, category, NaN, NaN, NaN, amount, NaN >>

\* ("1", DeviceA, 'сборочные единицы', 1)
RowDeviceA ==
  Row(<< 49 >>, Cell(TextDeviceA), Cell(DetailTypeValue("assembly_unit")), Cell(<< 49 >>))
\* ("1.1", Bracket, 'сборочные единицы', 2)
RowBracket ==
  Row(<< 49, 46, 49 >>, Cell(TextBracket), Cell(DetailTypeValue("assembly_unit")),
      Cell(<< 50 >>))
\* ("1.1.1", Bolt, 'детали', 3)
RowBolt ==
  Row(<< 49, 46, 49, 46, 49 >>, Cell(TextBolt), Cell(DetailTypeValue("detail")),
      Cell(<< 51 >>))
\* ("1.x", Bolt, 'сборочные единицы', 2): a segment that is no integer
RowBadPosition ==
  Row(<< 49, 46, 120 >>, Cell(TextBolt), Cell(DetailTypeValue("assembly_unit")),
      Cell(<< 50 >>))
\* ("x", Bolt, 'детали', 3)
RowBadPositionPart ==
  Row(<< 120 >>, Cell(TextBolt), Cell(DetailTypeValue("detail")), Cell(<< 51 >>))
\* ("1,1", " Bracket", 'Сборочные единицы', "2.0"): comma, padding, capital
RowComma ==
  Row(<< 49, 44, 49 >>, Cell(<< 32 >> \o TextBracket), Cell(TextAssemblyCapital),
      Cell(<< 50, 46, 48 >>))
\* ("2", Bolt, blank category, 1)
RowNoCategory == Row(<< 50 >>, Cell(TextBolt), NaN, Cell(<< 49 >>))
\* ("2", Bolt, 'винты', 1)
RowUnknownCategory == Row(<< 50 >>, Cell(TextBolt), Cell(TextUnknown), Cell(<< 49 >>))
\* a blank line: every cell blank but a name of two blanks
RowEmpty ==
  << NaN, Cell(<< 32, 32 >>), NaN, NaN, NaN, NaN, NaN, NaN, NaN, NaN >>

RowInputs ==
  { RowDeviceA, RowBracket, RowBolt, RowBadPosition, RowBadPositionPart, RowComma,
    RowNoCategory, RowUnknownCategory, RowEmpty }

\* The column layouts of the accepted files: the standard one, 'PART
\* NUMBER' as the last or as the second column, and a line feed in a header.
Layouts == { "standard", "part_number_last", "part_number_second", "word_break" }

LayoutColumns(layout) ==
  CASE layout = "part_number_last" -> Append(StandardColumns, NOT_NEED_COLUMNS[1])
    [] layout = "part_number_second" ->
         << StandardColumns[1], NOT_NEED_COLUMNS[1] >> \o Tail(StandardColumns)
    [] layout = "word_break" ->
         [ StandardColumns EXCEPT ![2] = SubSeq(@, 1, 4) \o << 10 >>
                                           \o SubSeq(@, 5, Len(@)) ]
    [] OTHER -> StandardColumns

LayoutRow(layout, row) ==
  CASE layout = "part_number_last" -> Append(row, Cell(TextPartNumber))
    [] layout = "part_number_second" ->
         << row[1], Cell(TextPartNumber) >> \o Tail(row)
    [] OTHER -> row

RawFile(layout, rows) ==
  Frame(LayoutColumns(layout),
        [ r \in 1..Len(rows) |-> LayoutRow(layout, rows[r]) ])

\* Files check_columns_kit rejects: three columns only, or a header
\* ('Способ\nизготовления') that is no necessary column once its line feed
\* is taken out.
RejectedLayouts == { "three_columns", "broken_header" }

RejectedRowInputs(layout) ==
  IF layout = "three_columns"
  THEN { << Cell(<< 49 >>), Cell(TextDeviceA), Cell(DetailTypeValue("assembly_unit")) >>,
         << NaN, NaN, NaN >> }
  ELSE { RowDeviceA }

RejectedFile(layout, rows) ==
  Frame(IF layout = "three_columns"
        THEN << StandardColumns[1], StandardColumns[2], StandardColumns[5] >>
        ELSE [ StandardColumns EXCEPT ![6] = SubSeq(@, 1, 6) \o << 10 >>
                                               \o SubSeq(@, 8, Len(@)) ],
        rows)

(***************************************************************************)
(* ExcelInput.clear_content / ExcelOutput.clear_content and Main.main.     *)
(***************************************************************************)
\* Variant: the forest and the map are left as they are.
clear_content_keeps_forest ==
  /\ file_contents' = None
  /\ empty_index' = << >>
  /\ models' = models
  /\ counter_unique_models' = counter_unique_models
  /\ relative_content' = None
  /\ absolute_content' = None

\* ExcelInput.clear_content (436-445) and ExcelOutput.clear_content (34-41).
clear_content ==
  /\ file_contents' = None
  /\ empty_index' = << >>
  /\ models' = << >>
  /\ counter_unique_models' = EmptyDict
  /\ relative_content' = None
  /\ absolute_content' = None

\* Main.main, lines 33-37: the next file of the list; both handlers cleared.
\* Of the previous file's sheet only the outcome stays in ret.
MainNextFile ==
  /\ pc = "loop"
  /\ file_no < MaxFiles
  /\ file_no' = file_no + 1
  /\ clear_content
  /\ row_no' = 0
  /\ ret' = [ exc |-> ret.exc ]
  /\ pc' = "read"
  /\ UNCHANGED << raised, arg >>

\* read_excel_file on a rejected file ends in check_columns_kit raising
\* IncorrectColumns: the frame stays in file_contents, Main.main logs the
\* exception and continues with the next file.
ReadRejected ==
  /\ pc = "read"
  /\ \E layout \in RejectedLayouts : \E k \in 0..MaxRejectedRows :
     \E rows \in [1..k -> RejectedRowInputs(layout)] :
       LET read == read_excel_file(RejectedFile(layout, rows)) IN
       /\ read.exc = "IncorrectColumns"
       /\ file_contents' = read.frame
  /\ pc' = "loop"
  /\ UNCHANGED << file_no, row_no, empty_index, models, counter_unique_models,
                  relative_content, absolute_content, raised, arg, ret >>

\* read_excel_file accepts a file, and work_with_rows begins: column 0 is
\* made str (line 266).
ReadAccepted ==
  /\ pc = "read"
  /\ \E layout \in Layouts : \E k \in 0..MaxFileRows :
     \E rows \in [1..k -> RowInputs] :
       LET read == read_excel_file(RawFile(layout, rows)) IN
       /\ read.exc = "none"
       /\ file_contents' = astype_str(read.frame)
  /\ pc' = "rows"
  /\ UNCHANGED << file_no, row_no, empty_index, models, counter_unique_models,
                  relative_content, absolute_content, raised, arg, ret >>

\* collect_model, lines 402-405, on a constructed model.
AttachStep(model) ==
  LET r == attach_model(models, counter_unique_models, model) IN
  /\ models' = r.coll
  /\ counter_unique_models' = r.counter
  /\ row_no' = row_no + 1

\* One iteration of the loop of work_with_rows (268-274) on the row fix_row
\* returned as fixed, built being what lines 370-399 of collect_model made
\* of it: IncorrectRow is logged and the loop continues, any other
\* exception leaves work_with_rows and Main.main.
RowStep(fixed, built) ==
  /\ file_contents' = [ file_contents EXCEPT !.rows[row_no + 1] = fixed.row ]
  /\ empty_index' = IF fixed.empty THEN Append(empty_index, row_no)
                    ELSE empty_index
  /\ IF built.exc = "none"
     THEN /\ AttachStep(built.model)
          /\ UNCHANGED << pc, raised >>
     ELSE IF built.exc = "IncorrectRow"
     THEN /\ row_no' = row_no + 1
          /\ UNCHANGED << models, counter_unique_models, pc, raised >>
     ELSE /\ row_no' = row_no + 1
          /\ pc' = "crashed"
          /\ raised' = built.exc
          /\ UNCHANGED << models, counter_unique_models >>
  /\ UNCHANGED << file_no, relative_content, absolute_content, arg, ret >>

\* fix_row, then collect_model, on the next row of the frame.
WorkWithRow ==
  /\ pc = "rows"
  /\ row_no < Len(file_contents.rows)
  /\ LET fixed == fix_row(file_contents.rows[row_no + 1])
     IN RowStep(fixed, build_model(fixed.row))

\* The else clause of the loop (276): the blank rows are dropped.
RowsDone ==
  /\ pc = "rows"
  /\ row_no = Len(file_contents.rows)
  /\ file_contents' = drop_rows(file_contents, empty_index)
  /\ pc' = "write"
  /\ UNCHANGED << file_no, row_no, empty_index, models, counter_unique_models,
                  relative_content, absolute_content, raised, arg, ret >>

\* Main.main, lines 41-44, after work_with_rows: the unwanted columns are
\* deleted, the views are handed to the output handler and
\* write_excel_file builds the absolute sheet.
WriteFile ==
  /\ pc = "write"
  /\ file_contents' = delete_columns(file_contents, NOT_NEED_COLUMNS)
  /\ relative_content' = file_contents'
  /\ absolute_content' = models
  /\ LET sheet == create_absolute_sheet(counter_unique_models) IN
       IF sheet.exc = "KeyError"
       THEN /\ pc' = "crashed"
            /\ raised' = "KeyError"
            /\ ret' = ret
       ELSE /\ pc' = "loop"
            /\ raised' = raised
            /\ ret' = sheet
  /\ UNCHANGED << file_no, row_no, empty_index, models,
                  counter_unique_models, arg >>

InitMain ==
  /\ pc = "loop"
  /\ file_no = 0
  /\ row_no = 0
  /\ file_contents = None
  /\ empty_index = << >>
  /\ models = << >>
  /\ counter_unique_models = EmptyDict
  /\ relative_content = None
  /\ absolute_content = None
  /\ raised = "none"
  /\ arg = << >>
  /\ ret = NoResult

(***************************************************************************)
(* The row-level specification: Main.main over the input files.            *)
(***************************************************************************)
Init == InitMain

Next ==
  \/ MainNextFile
  \/ ReadRejected
  \/ ReadAccepted
  \/ WorkWithRow
  \/ RowsDone
  \/ WriteFile

Spec == Init /\ [][Next]_vars

(***************************************************************************)
(* The forest-level specification: one ExcelInput, collect_model's         *)
(* attach half (lines 402-405 and find_assembly) applied to a sequence of  *)
(* constructed records.                                                    *)
(***************************************************************************)
InitForest ==
  /\ pc = "forest"
  /\ file_no = 0
  /\ row_no = 0
  /\ file_contents = None
  /\ empty_index = << >>
  /\ models = << >>
  /\ counter_unique_models = EmptyDict
  /\ relative_content = None
  /\ absolute_content = None
  /\ raised = "none"
  /\ arg = << >>
  /\ ret = NoResult

ForestRow ==
  /\ pc = "forest"
  /\ row_no < MaxRows
  /\ \E model \in Records(counter_unique_models) : AttachStep(model)
  /\ UNCHANGED << pc, file_no, file_contents, empty_index, relative_content,
                  absolute_content, raised, arg, ret >>

NextForest == ForestRow

SpecForest == InitForest /\ [][NextForest]_vars

(***************************************************************************)
(* The forest-level specification over several files: for each file both   *)
(* handlers are cleared, as at the head of the loop of Main.main (34-35),  *)
(* then constructed records reach lines 402-405.                           *)
(***************************************************************************)
InitFiles ==
  /\ pc = "loop"
  /\ file_no = 0
  /\ row_no = 0
  /\ file_contents = None
  /\ empty_index = << >>
  /\ models = << >>
  /\ counter_unique_models = EmptyDict
  /\ relative_content = None
  /\ absolute_content = None
  /\ raised = "none"
  /\ arg = << >>
  /\ ret = NoResult

\* clear_content of both handlers for the next file; arg keeps the number
\* of roots the forest held when it was called.
FileBegins ==
  /\ file_no < MaxFiles
  /\ file_no' = file_no + 1
  /\ clear_content
  /\ row_no' = 0
  /\ arg' = << Len(models) >>
  /\ pc' = "forest"
  /\ UNCHANGED << raised, ret >>

FileRow ==
  /\ pc = "forest"
  /\ row_no < MaxBatchRows
  /\ \E model \in Records(counter_unique_models) : AttachStep(model)
  /\ UNCHANGED << pc, file_no, file_contents, empty_index, relative_content,
                  absolute_content, raised, arg, ret >>

NextFiles ==
  \/ FileBegins
  \/ FileRow

SpecFiles == InitFiles /\ [][NextFiles]_vars

(***************************************************************************)
(* is_detail_in_assembly as a function of two paths.                       *)
(***************************************************************************)
PathInputs == UNION { [1..n -> { 1, 2 }] : n \in 1..MaxDepth }

InitPath ==
  /\ pc = "call"
  /\ arg \in { [ assembly |-> a, detail |-> b ] : a \in PathInputs, b \in PathInputs }
  /\ file_no = 0
  /\ row_no = 0
  /\ file_contents = None
  /\ empty_index = << >>
  /\ models = << >>
  /\ counter_unique_models = EmptyDict
  /\ relative_content = None
  /\ absolute_content = None
  /\ raised = "none"
  /\ ret = NoResult

\* assembly.is_detail_in_assembly(detail) for an assembly and a record with
\* the two paths.
CallIsDetail ==
  /\ pc = "call"
  /\ ret' = [ exc |-> "none",
              value |-> is_detail_in_assembly(
                          AssemblyUnit(arg.assembly, Name(1), << >>, 2, 2),
                          SpecificationEntity(arg.detail, Name(2), "detail", 3, 3)) ]
  /\ pc' = "returned"
  /\ UNCHANGED << file_no, row_no, file_contents, empty_index, models,
                  counter_unique_models, relative_content, absolute_content,
                  raised, arg >>

NextPath == CallIsDetail

SpecPath == InitPath /\ [][NextPath]_vars

(***************************************************************************)
(* create_absolute_sheet as a function of the aggregation map.             *)
(***************************************************************************)
\* "A", "AB", "B"
SheetNames == { << 65 >>, << 65, 66 >>, << 66 >> }

SheetTypes == { DetailTypesMembers[i] : i \in 1..Len(DetailTypesMembers) }

SheetEntry(name, type) ==
  IF type = "assembly_unit" THEN AssemblyUnit(<< 1 >>, name, << >>, 1, 2)
  ELSE SpecificationEntity(<< 1 >>, name, type, 1, 2)

\* Every map from some of the names to an entry of some category.
SheetInputs ==
  UNION { { [n \in names |-> SheetEntry(n, types[n])] : types \in [names -> SheetTypes] } :
          names \in SUBSET SheetNames }

InitSheet ==
  /\ pc = "call"
  /\ arg \in SheetInputs
  /\ file_no = 0
  /\ row_no = 0
  /\ file_contents = None
  /\ empty_index = << >>
  /\ models = << >>
  /\ counter_unique_models = EmptyDict
  /\ relative_content = None
  /\ absolute_content = None
  /\ raised = "none"
  /\ ret = NoResult

CallCreateAbsoluteSheet ==
  /\ pc = "call"
  /\ ret' = create_absolute_sheet(arg)
  /\ pc' = "returned"
  /\ UNCHANGED << file_no, row_no, file_contents, empty_index, models,
                  counter_unique_models, relative_content, absolute_content,
                  raised, arg >>

NextSheet == CallCreateAbsoluteSheet

SpecSheet == InitSheet /\ [][NextSheet]_vars

(***************************************************************************)
(* Two orderings of the same rows, one after the other on one ExcelInput   *)
(* (cleared in between); the first run's map is kept in ret.               *)
(***************************************************************************)
OrderNumbers == { << 1 >>, << 1, 1 >>, << 2 >>, << 2, 1 >> }

OrderRecords ==
  { AssemblyUnit(n, nm, << >>, a, a) :
      n \in OrderNumbers, nm \in { Name(1), Name(2) }, a \in Amounts }
  \cup
  { SpecificationEntity(n, nm, "detail", a, a) :
      n \in OrderNumbers, nm \in { Name(1), Name(2) }, a \in Amounts }

\* Every row that has a parent assembly among the rows comes after it.
TopologicallyValid(rows) ==
  \A i \in 1..Len(rows) : \A j \in 1..Len(rows) :
     (rows[i].cls = "AssemblyUnit" /\ is_detail_in_assembly(rows[i], rows[j])) => i < j

\* No two rows share a position.
Distinct(rows) ==
  \A i \in 1..Len(rows) : \A j \in 1..Len(rows) : rows[i].number = rows[j].number => i = j

Rearrangements(n) == { f \in [1..n -> 1..n] : \A i \in 1..n : \E j \in 1..n : f[j] = i }

\* The files of n rows with distinct positions in a topologically valid order.
OrderInputs(n) ==
  { r \in [1..n -> OrderRecords] : Distinct(r) /\ TopologicallyValid(r) }

InitOrder ==
  /\ pc = "first"
  /\ \E n \in 1..MaxOrderRows : \E rows \in OrderInputs(n) :
       arg = [ first |-> rows, second |-> rows ]
  /\ file_no = 0
  /\ row_no = 0
  /\ file_contents = None
  /\ empty_index = << >>
  /\ models = << >>
  /\ counter_unique_models = EmptyDict
  /\ relative_content = None
  /\ absolute_content = None
  /\ raised = "none"
  /\ ret = NoResult

\* collect_model (402-405) on the next row of the current ordering.
OrderRow ==
  /\ pc \in { "first", "second" }
  /\ row_no < Len(arg.first)
  /\ AttachStep(IF pc = "first" THEN arg.first[row_no + 1] ELSE arg.second[row_no + 1])
  /\ UNCHANGED << pc, file_no, file_contents, empty_index, relative_content,
                  absolute_content, raised, arg, ret >>

\* The first ordering is through: its map is kept, the handlers are cleared
\* and another topologically valid ordering of the same rows is taken.
OrderSwitch ==
  /\ pc = "first"
  /\ row_no = Len(arg.first)
  /\ ret' = [ exc |-> "none", counter |-> counter_unique_models ]
  /\ clear_content
  /\ row_no' = 0
  /\ \E f \in Rearrangements(Len(arg.first)) :
       LET second == [i \in 1..Len(arg.first) |-> arg.first[f[i]]] IN
       /\ TopologicallyValid(second)
       /\ arg' = [arg EXCEPT !.second = second]
  /\ pc' = "second"
  /\ UNCHANGED << file_no, raised >>

\* The second ordering is through.
OrderDone ==
  /\ pc = "second"
  /\ row_no = Len(arg.first)
  /\ pc' = "compared"
  /\ UNCHANGED << file_no, row_no, file_contents, empty_index, models,
                  counter_unique_models, relative_content, absolute_content,
                  raised, arg, ret >>

NextOrder ==
  \/ OrderRow
  \/ OrderSwitch
  \/ OrderDone

SpecOrder == InitOrder /\ [][NextOrder]_vars

(***************************************************************************)
(* Properties.                                                             *)
(***************************************************************************)
\* The records of a forest, roots and descendants, each with the product of
\* its own amount and the amounts of all its ancestors.
RECURSIVE Contributions(_, _)
Contributions(coll, above) ==
  IF coll = << >> THEN << >>
  ELSE LET head == coll[1]
           own == above * head.amount
       IN << [ name |-> head.name, quantity |-> own ] >>
          \o (IF head.cls = "AssemblyUnit" THEN Contributions(head.components, own)
              ELSE << >>)
          \o Contributions(Tail(coll), above)

RECURSIVE SumFor(_, _)
SumFor(contributions, name) ==
  IF contributions = << >> THEN 0
  ELSE (IF contributions[1].name = name THEN contributions[1].quantity ELSE 0)
       + SumFor(Tail(contributions), name)

CountRecords(forest) == Len(Contributions(forest, 1))

NamesOf(contributions) == { contributions[i].name : i \in 1..Len(contributions) }

\* Every root is a top-level row: each deeper row found its parent
\* assembly among the rows before it.
ParentsPrecede == \A i \in 1..Len(models) : Len(models[i].number) = 1

NamesDistinct == CountRecords(models) = Cardinality(DOMAIN counter_unique_models)

\* C1 as claimed: when every row's parent assembly precedes it and the
\* names are distinct, every record's count_in_device in the map is the
\* product of its amount and the amounts of all its ancestors.
C1_ProductOfAllAncestors ==
  (pc = "forest" /\ ParentsPrecede /\ NamesDistinct) =>
    LET all == Contributions(models, 1) IN
    \A i \in 1..Len(all) :
       /\ all[i].name \in DOMAIN counter_unique_models
       /\ counter_unique_models[all[i].name].count_in_device = all[i].quantity

\* C2 as claimed: the map has exactly one entry per name met, and the
\* entry's count_in_device is the sum of the contributions of all rows with
\* that name, a top-level row contributing its own amount.
C2_SumPerName ==
  pc = "forest" =>
    LET all == Contributions(models, 1) IN
    /\ DOMAIN counter_unique_models = NamesOf(all)
    /\ \A n \in DOMAIN counter_unique_models :
         counter_unique_models[n].count_in_device = SumFor(all, n)

\* The row work_with_rows handled last, when the loop is running or an
\* exception has left it.
InRows == pc = "rows" \/ (pc = "crashed" /\ raised # "KeyError")

\* The row of the frame that work_with_rows handled as its k-th.
HandledRow(k) == file_contents.rows[k]

MalformedPosition(row) ==
  parse_number(iloc(check_row_number(row), 0).v).exc # "none"

UnknownCategory(row) ==
  ~ iloc(row, 4).na /\ get_type(iloc(row, 4).v) = "IncorrectRow"

\* A row the specification accepts: a dotted path of integers, a name, a
\* category of the vocabulary and a numeric amount.
ValidRow(row) ==
  /\ ~ MalformedPosition(row)
  /\ ~ iloc(row, 1).na
  /\ ~ iloc(row, 4).na
  /\ ~ UnknownCategory(row)
  /\ ~ iloc(row, 8).na
  /\ parse_amount(iloc(row, 8)).exc = "none"

\* C3 as claimed: a row with a category whose position is no dotted
\* sequence of integers is skipped and the rows after it are processed;
\* no exception leaves the loop at such a row.
C3_MalformedPositionSkipped ==
  (pc = "crashed" /\ raised # "KeyError") =>
    ~ (~ iloc(HandledRow(row_no), 4).na /\ MalformedPosition(HandledRow(row_no)))

\* C4 as claimed: a row whose category is blank or unknown is skipped and
\* the rows after it are processed; no exception leaves the loop at such a
\* row.
C4_BadCategorySkipped ==
  (pc = "crashed" /\ raised # "KeyError") =>
    ~ (iloc(HandledRow(row_no), 4).na \/ UnknownCategory(HandledRow(row_no)))

\* C5 as claimed: the forest holds exactly as many records as valid rows
\* have been handed to collect_model; none is lost, none is inserted twice.
C5_RecordPerValidRow ==
  InRows =>
    CountRecords(models) =
      Cardinality({ i \in 1..row_no : ValidRow(HandledRow(i)) })

\* C6 as claimed: two topologically valid orderings of the same rows give
\* the same names with the same count_in_device.
C6_OrderIndependent ==
  pc = "compared" =>
    /\ DOMAIN counter_unique_models = DOMAIN ret.counter
    /\ \A n \in DOMAIN counter_unique_models :
         counter_unique_models[n].count_in_device = ret.counter[n].count_in_device

\* The place of a category text in the enumeration DetailTypes.
EnumIndex(text) ==
  CHOOSE i \in 1..Len(DetailTypesMembers) : DetailTypeValue(DetailTypesMembers[i]) = text

\* One row per entry of the map, with the entry's name, category and count.
OneRowPerEntry(details, rows) ==
  /\ Len(rows) = Cardinality(DOMAIN details)
  /\ { rows[i] : i \in 1..Len(rows) } = { sheet_row(details[n]) : n \in DOMAIN details }

\* C7: for every aggregation map create_absolute_sheet returns a sheet; the
\* sheet holds one row per entry of the map, ordered by category in the
\* order of the enumeration DetailTypes (детали, сборочные единицы, прочие
\* изделия, стандартные изделия, материалы), then by name in lexicographic
\* order.
C7_EnumerationOrder ==
  pc = "returned" =>
    /\ ret.exc = "none"
    /\ OneRowPerEntry(arg, ret.rows)
    /\ \A i \in 1..Len(ret.rows) : \A j \in 1..Len(ret.rows) :
         i < j =>
           \/ EnumIndex(ret.rows[i].detail_type) < EnumIndex(ret.rows[j].detail_type)
           \/ /\ ret.rows[i].detail_type = ret.rows[j].detail_type
              /\ StrLess(ret.rows[i].name, ret.rows[j].name)

\* A returned sheet in which a row of a later category of the enumeration
\* stands before a row of an earlier one.
C7_Witness ==
  /\ pc = "returned"
  /\ ret.exc = "none"
  /\ \E i \in 1..Len(ret.rows) : \E j \in 1..Len(ret.rows) :
       /\ i < j
       /\ EnumIndex(ret.rows[i].detail_type) > EnumIndex(ret.rows[j].detail_type)

\* The three rows of the end-to-end scenario, and the frame work_with_rows
\* starts from when a file holds them under the standard headers.
Scenario == << RowDeviceA, RowBracket, RowBolt >>

ScenarioFrame == astype_str(read_excel_file(RawFile("standard", Scenario)).frame)

\* C8 as claimed: the three rows are processed without error; Bolt lies
\* under Bracket under DeviceA; Bolt's count_in_device is 6; the sheet has
\* one row for each of the three names.
C8_Scenario ==
  file_contents = ScenarioFrame =>
    /\ pc # "crashed"
    /\ pc \in { "write", "loop" } =>
         /\ Len(models) = 1
         /\ models[1].name = TextDeviceA
         /\ Len(models[1].components) = 1
         /\ models[1].components[1].name = TextBracket
         /\ Len(models[1].components[1].components) = 1
         /\ models[1].components[1].components[1].name = TextBolt
         /\ DOMAIN counter_unique_models = { TextDeviceA, TextBracket, TextBolt }
         /\ counter_unique_models[TextBolt].count_in_device = 6
    /\ pc = "loop" =>
         /\ ret.exc = "none"
         /\ Len(ret.rows) = 3
         /\ { ret.rows[i].name : i \in 1..Len(ret.rows) }
              = { TextDeviceA, TextBracket, TextBolt }

\* C9: is_detail_in_assembly is true exactly when the record's path is one
\* longer than the assembly's and starts with the assembly's path.
C9_ImmediateChild ==
  pc = "returned" =>
    (ret.value <=>
       /\ Len(arg.detail) = Len(arg.assembly) + 1
       /\ SubSeq(arg.detail, 1, Len(arg.assembly)) = arg.assembly)

\* A child two levels down is recognised under its parent.
C9_Witness ==
  /\ pc = "returned"
  /\ ret.value
  /\ Len(arg.assembly) >= 2

\* C10: whenever the row processing of a file begins, the forest and the
\* aggregation map are empty, whatever the earlier files left.
C10_FreshPerFile ==
  (pc \in { "forest", "rows" } /\ row_no = 0) =>
    /\ models = << >>
    /\ counter_unique_models = EmptyDict

\* The second file begins after the first one left a forest.
C10_Witness ==
  /\ pc = "forest"
  /\ row_no = 0
  /\ file_no = 2
  /\ arg # << >>
  /\ arg[1] > 0

\* Every record in a child list is an immediate child of the list's owner:
\* its path is the owner's path and one more component.
RECURSIVE ChildrenUnderOwners(_)
ChildrenUnderOwners(coll) ==
  \A i \in 1..Len(coll) :
     coll[i].cls = "AssemblyUnit" =>
       /\ \A k \in 1..Len(coll[i].components) :
            /\ Len(coll[i].components[k].number) = Len(coll[i].number) + 1
            /\ SubSeq(coll[i].components[k].number, 1, Len(coll[i].number))
                 = coll[i].number
       /\ ChildrenUnderOwners(coll[i].components)

\* C11: after any sequence of rows the forest holds one occurrence per row
\* processed, as a root or in the child list of one assembly, and every
\* record in a child list has its owner's path extended by one component.
C11_OncePerRowUnderOwner ==
  pc = "forest" =>
    /\ CountRecords(models) = row_no
    /\ ChildrenUnderOwners(models)

\* A forest with two roots, one of them an assembly holding an assembly
\* that holds a record of its own.
C11_Witness ==
  /\ pc = "forest"
  /\ Len(models) >= 2
  /\ \E i \in 1..Len(models) :
       /\ models[i].cls = "AssemblyUnit"
       /\ \E k \in 1..Len(models[i].components) :
            /\ models[i].components[k].cls = "AssemblyUnit"
            /\ models[i].components[k].components # << >>

\* The class and the category member the specification assigns to a row
\* with a category of the vocabulary.
ExpectedClass(row) ==
  IF Lower(iloc(row, 4).v) = Lower(DetailTypeValue("assembly_unit"))
  THEN "AssemblyUnit" ELSE "SpecificationEntity"

RECURSIVE HoldsRecord(_, _, _, _, _)
HoldsRecord(coll, number, name, cls, detail_type) ==
  \E i \in 1..Len(coll) :
     \/ /\ coll[i].number = number
        /\ coll[i].name = name
        /\ coll[i].cls = cls
        /\ coll[i].detail_type = detail_type
     \/ /\ coll[i].cls = "AssemblyUnit"
        /\ HoldsRecord(coll[i].components, number, name, cls, detail_type)

\* C12 as claimed: a valid row whose category is the assembly category
\* (ignoring case) is built as an AssemblyUnit, any other valid row as a
\* SpecificationEntity whose detail_type is the member equal to the text
\* ignoring case, and the record is then placed in the forest; no exception
\* leaves collect_model at such a row.
C12_ClassifiedByCategory ==
  (InRows /\ row_no >= 1 /\ ValidRow(HandledRow(row_no))) =>
    LET row == HandledRow(row_no) IN
    /\ pc # "crashed"
    /\ HoldsRecord(models, parse_number(iloc(row, 0).v).v, Strip(iloc(row, 1).v),
                   ExpectedClass(row), get_type(iloc(row, 4).v))

\* path is parent's path extended by one component.
ImmediateParentPath(parent, path) ==
  /\ Len(path) = Len(parent) + 1
  /\ SubSeq(path, 1, Len(parent)) = parent

\* C13: every root stays the root it was, at its place among the roots,
\* when a further row is processed; when that row is an assembly whose path
\* is the immediate parent of an earlier root, the assembly becomes a root
\* with an empty child list and the earlier root's contribution stays in
\* the map as it was: the entry under the root's name changes by what the
\* assembly itself contributes under that name (its own amount when it
\* bears the root's name, nothing otherwise), and it is the root's own
\* amount when no other record bears its name.
C13_PromotedStaysRoot ==
  [][ pc = "forest" =>
        /\ Len(models') >= Len(models)
        /\ \A i \in 1..Len(models) :
             /\ models'[i].number = models[i].number
             /\ models'[i].name = models[i].name
             /\ models'[i].cls = models[i].cls
             /\ models'[i].amount = models[i].amount
             /\ \A j \in (Len(models) + 1)..Len(models') :
                  ( /\ models'[j].cls = "AssemblyUnit"
                    /\ ImmediateParentPath(models'[j].number, models[i].number) )
                  =>
                  /\ models'[j].components = << >>
                  /\ counter_unique_models'[models[i].name].count_in_device
                       = counter_unique_models[models[i].name].count_in_device
                         + (IF models'[j].name = models[i].name
                            THEN models'[j].amount ELSE 0)
                  /\ models'[j].name # models[i].name =>
                       counter_unique_models'[models[i].name]
                         = counter_unique_models[models[i].name]
                  /\ SumFor(Contributions(models', 1), models[i].name)
                       = models[i].amount =>
                         counter_unique_models'[models[i].name].count_in_device
                           = models[i].amount
    ]_vars

\* A record of path 1.1 was promoted, and the assembly 1 of the same name
\* processed after it is a root of its own; the entry under that name is
\* the assembly's amount alone.
C13_Witness ==
  /\ pc = "forest"
  /\ \E i, j \in 1..Len(models) :
       /\ i < j
       /\ models[j].cls = "AssemblyUnit"
       /\ ImmediateParentPath(models[j].number, models[i].number)
       /\ models[j].name = models[i].name
       /\ models[j].components = << >>
       /\ counter_unique_models[models[i].name].count_in_device = models[j].amount

\* The records of child lists, each with its amount times the amount of the
\* assembly that owns it times the amount of the assembly that owns the
\* owner (1 when the owner is a root).
RECURSIVE AttachedUnder(_, _, _)
AttachedUnder(children, owner_amount, upper_amount) ==
  IF children = << >> THEN << >>
  ELSE LET head == children[1] IN
       << [ name |-> head.name,
            quantity |-> head.amount * owner_amount * upper_amount ] >>
       \o (IF head.cls = "AssemblyUnit"
           THEN AttachedUnder(head.components, head.amount, owner_amount)
           ELSE << >>)
       \o AttachedUnder(Tail(children), owner_amount, upper_amount)

RECURSIVE AttachedInForest(_)
AttachedInForest(roots) ==
  IF roots = << >> THEN << >>
  ELSE (IF roots[1].cls = "AssemblyUnit"
        THEN AttachedUnder(roots[1].components, roots[1].amount, 1)
        ELSE << >>)
       \o AttachedInForest(Tail(roots))

\* Every record stored in the forest has count_in_device equal to amount.
RECURSIVE StoredCountIsAmount(_)
StoredCountIsAmount(coll) ==
  \A i \in 1..Len(coll) :
     /\ coll[i].count_in_device = coll[i].amount
     /\ coll[i].cls = "AssemblyUnit" => StoredCountIsAmount(coll[i].components)

\* C14: a step in which find_assembly attaches a record under an assembly P
\* raises the map entry of the record's name (from 0 when it is new) by
\* record.amount * P.amount * G.amount, G being the owner of P and the
\* factor 1 when P is a root, and changes no other entry's quantity; the
\* records stored in the forest keep count_in_device equal to amount.
C14_OwnerAndOwnersOwner ==
  [][ pc = "forest" =>
        /\ StoredCountIsAmount(models')
        /\ Len(models') = Len(models) =>
             \A n \in DOMAIN counter_unique_models' :
                counter_unique_models'[n].count_in_device
                  - (IF n \in DOMAIN counter_unique_models
                     THEN counter_unique_models[n].count_in_device ELSE 0)
                = SumFor(AttachedInForest(models'), n)
                  - SumFor(AttachedInForest(models), n)
    ]_vars

\* A record four levels deep, the only one of its name: its entry is its
\* amount times its owner's times the owner's owner's, and the root's
\* amount, which is more than 1, is not in it.
C14_Witness ==
  /\ pc = "forest"
  /\ \E i \in 1..Len(models) :
       /\ models[i].cls = "AssemblyUnit"
       /\ models[i].amount > 1
       /\ \E a \in 1..Len(models[i].components) :
            LET G == models[i].components[a] IN
            /\ G.cls = "AssemblyUnit"
            /\ \E b \in 1..Len(G.components) :
                 LET P == G.components[b] IN
                 /\ P.cls = "AssemblyUnit"
                 /\ \E c \in 1..Len(P.components) :
                      LET record == P.components[c] IN
                      /\ SumFor(Contributions(models, 1), record.name)
                           = record.amount * P.amount * G.amount * models[i].amount
                      /\ counter_unique_models[record.name].count_in_device
                           = record.amount * P.amount * G.amount

====
